---- MODULE Spec2Model ----
(***************************************************************************)
(* House-price prediction: the serving process (server/app.py) and the     *)
(* training run (server/train_and_save_model.py).                          *)
(*                                                                         *)
(* JSON values are records [t, n, d, s]: a number n/d (t = "num"), a       *)
(* string of characters s (t = "str"), null (t = "null"); pandas' NaN is   *)
(* t = "nan".  Numbers are exact rationals in lowest terms, so binary      *)
(* floating-point rounding is not modelled.                                *)
(***************************************************************************)
EXTENDS Integers, Sequences, FiniteSets, TLC

VARIABLES
    now_year,       \* the wall clock's year, datetime.now().year
    disk,           \* the four artifact files in the working directory
    runs,           \* training runs started so far: dataset and year read
    trainer,        \* the training process: position in main / save_assets
    srv,            \* the serving process: "down", "failed" or "running"
    model,          \* app.py global: the loaded regressor
    scaler,         \* app.py global: the loaded scaler
    feature_names,  \* app.py global: preprocessing_info['feature_names']
    metrics,        \* app.py global: the loaded metrics document
    request,        \* body of the last POST /predict
    response        \* its response

vars == <<now_year, disk, runs, trainer, srv, model, scaler, feature_names,
          metrics, request, response>>

----------------------------------------------------------------------------
(* Numbers *)

RECURSIVE GCD(_, _)
GCD(a, b) == IF b = 0 THEN a ELSE GCD(b, a % b)

Abs(x) == IF x < 0 THEN -x ELSE x

\* the number n/d (d # 0) in lowest terms with a positive denominator
Rat(n, d) ==
    LET g == GCD(Abs(n), Abs(d))
        sg == IF d < 0 THEN -1 ELSE 1
    IN [t |-> "num", n |-> sg * (n \div g), d |-> sg * (d \div g), s |-> <<>>]

Num(n) == Rat(n, 1)

NaN == [t |-> "nan", n |-> 0, d |-> 1, s |-> <<>>]

Null == [t |-> "null", n |-> 0, d |-> 1, s |-> <<>>]

Str(chars) == [t |-> "str", n |-> 0, d |-> 1, s |-> chars]

Le(a, b) == a.n * b.d <= b.n * a.d

Lt(a, b) == a.n * b.d < b.n * a.d

Add(a, b) == Rat(a.n * b.d + b.n * a.d, a.d * b.d)

Sub(a, b) == Rat(a.n * b.d - b.n * a.d, a.d * b.d)

\* a / b for b # 0
Div(a, b) == Rat(a.n * b.d, a.d * b.n)

\* astype(int): truncation toward zero
AsInt(a) == IF a.n >= 0 THEN Num(a.n \div a.d) ELSE Num(-((-a.n) \div a.d))

----------------------------------------------------------------------------
(* Conversion of a value to a number: float(x) and pd.to_numeric *)

Digits == {"0", "1", "2", "3", "4", "5", "6", "7", "8", "9"}

DigitVal(c) ==
    CASE c = "0" -> 0 [] c = "1" -> 1 [] c = "2" -> 2 [] c = "3" -> 3
      [] c = "4" -> 4 [] c = "5" -> 5 [] c = "6" -> 6 [] c = "7" -> 7
      [] c = "8" -> 8 [] c = "9" -> 9

RECURSIVE Pow10(_)
Pow10(k) == IF k = 0 THEN 1 ELSE 10 * Pow10(k - 1)

\* the digits of cs read as a decimal integer, skipping the point
RECURSIVE DecVal(_, _)
DecVal(cs, acc) ==
    IF cs = <<>> THEN acc
    ELSE IF Head(cs) = "." THEN DecVal(Tail(cs), acc)
    ELSE DecVal(Tail(cs), 10 * acc + DigitVal(Head(cs)))

\* A plain decimal literal: [sign] digits [. digits], at least one digit.
\* Returns [ok, v]; ok = FALSE is Python's ValueError.
ParseDecimal(cs) ==
    LET signed == cs # <<>> /\ Head(cs) \in {"-", "+"}
        body == IF signed THEN Tail(cs) ELSE cs
        dots == {i \in 1..Len(body) : body[i] = "."}
        ndig == Cardinality({i \in 1..Len(body) : body[i] \in Digits})
        ok == /\ Cardinality(dots) <= 1
              /\ ndig >= 1
              /\ \A i \in 1..Len(body) : body[i] \in Digits \cup {"."}
        frac == IF dots = {} THEN 0 ELSE Len(body) - (CHOOSE i \in dots : TRUE)
        mag == DecVal(body, 0)
    IN IF ~ok THEN [ok |-> FALSE, v |-> NaN]
       ELSE [ok |-> TRUE,
             v |-> Rat(IF signed /\ Head(cs) = "-" THEN -mag ELSE mag, Pow10(frac))]

\* float(x): a number is itself, a string is parsed (ValueError when it is
\* no literal), None raises TypeError.
float(x) ==
    CASE x.t = "num" -> [ok |-> TRUE, v |-> x]
      [] x.t = "str" -> ParseDecimal(x.s)
      [] OTHER -> [ok |-> FALSE, v |-> NaN]

\* pd.to_numeric(column, errors='coerce') on the one-row column holding x
to_numeric(x) ==
    CASE x.t = "num" -> x
      [] x.t = "str" -> IF ParseDecimal(x.s).ok THEN ParseDecimal(x.s).v ELSE NaN
      [] OTHER -> NaN

----------------------------------------------------------------------------
(* POST /predict: validation *)

required_fields ==
    <<"bedrooms", "bathrooms", "living_area", "lot_area", "floors",
      "waterfront", "views", "condition", "grade", "house_area",
      "basement_area", "built_year", "renovation_year", "latitude",
      "longitude", "living_area_renovated", "lot_area_renovated",
      "schools_nearby", "airport_distance">>

\* the dict of closed ranges, in insertion order
validations ==
    <<[field |-> "bedrooms", min |-> 0, max |-> 20],
      [field |-> "bathrooms", min |-> 0, max |-> 20],
      [field |-> "living_area", min |-> 100, max |-> 50000],
      [field |-> "lot_area", min |-> 100, max |-> 1000000],
      [field |-> "floors", min |-> 1, max |-> 10],
      [field |-> "waterfront", min |-> 0, max |-> 1],
      [field |-> "views", min |-> 0, max |-> 10],
      [field |-> "condition", min |-> 1, max |-> 10],
      [field |-> "grade", min |-> 1, max |-> 15],
      [field |-> "house_area", min |-> 100, max |-> 50000],
      [field |-> "basement_area", min |-> 0, max |-> 10000],
      [field |-> "built_year", min |-> 1800, max |-> 2024],
      [field |-> "renovation_year", min |-> 0, max |-> 2024],
      [field |-> "schools_nearby", min |-> 0, max |-> 50],
      [field |-> "airport_distance", min |-> 0, max |-> 500]>>

\* the members of fs that data lacks or holds as '', in the order of fs
RECURSIVE SelectFields(_, _)
SelectFields(fs, data) ==
    IF fs = <<>> THEN <<>>
    ELSE IF Head(fs) \notin DOMAIN data \/ data[Head(fs)] = Str(<<>>)
         THEN <<Head(fs)>> \o SelectFields(Tail(fs), data)
         ELSE SelectFields(Tail(fs), data)

\* a variant that reports only the first missing field
missing_fields_first(data) ==
    LET all == SelectFields(required_fields, data)
    IN IF all = <<>> THEN all ELSE <<Head(all)>>

\* [field for field in required_fields if field not in data or data[field] == '']
missing_fields(data) == SelectFields(required_fields, data)

\* a variant with an open lower end: min < value <= max
validate_field_strict(data, i) ==
    LET value == float(data[validations[i].field])
    IN IF ~value.ok THEN "invalid"
       ELSE IF Lt(Num(validations[i].min), value.v) /\ Le(value.v, Num(validations[i].max))
            THEN "ok"
            ELSE "range"

\* one turn of the loop over validations.items(): "ok", "range" or "invalid"
validate_field(data, i) ==
    LET value == float(data[validations[i].field])
    IN IF ~value.ok THEN "invalid"
       ELSE IF Le(Num(validations[i].min), value.v) /\ Le(value.v, Num(validations[i].max))
            THEN "ok"
            ELSE "range"

\* the turn of the loop that returns a 400, 0 when every turn passes
first_failing(data) ==
    LET bad == {i \in 1..Len(validations) : validate_field(data, i) # "ok"}
    IN IF bad = {} THEN 0 ELSE CHOOSE i \in bad : \A j \in bad : i <= j

----------------------------------------------------------------------------
(* pd.cut(column, bins=3, labels=...) and pd.get_dummies(drop_first=True) *)

Mul(a, b) == Rat(a.n * b.n, a.d * b.d)

MinOf(xs) == CHOOSE m \in xs : \A y \in xs : Le(m, y)

MaxOf(xs) == CHOOSE m \in xs : \A y \in xs : Le(y, m)

\* The bin (1, 2 or 3) of x among three equal-width bins over the range of
\* the column xs, 0 when x falls in none (pandas' NaN category).  A column
\* with one distinct value has its range widened by 0.1% on both sides;
\* otherwise the lowest edge is lowered by 0.1% of the range.  Bins are
\* right-closed.
cut(xs, x) ==
    LET mn == MinOf(xs)
        mx == MaxOf(xs)
        flat == mn.n = mx.n /\ mn.d = mx.d
        pad(v) == IF v.n # 0 THEN Mul(Rat(1, 1000), Rat(Abs(v.n), v.d)) ELSE Rat(1, 1000)
        lo == IF flat THEN Sub(mn, pad(mn)) ELSE mn
        hi == IF flat THEN Add(mx, pad(mx)) ELSE mx
        adj == Mul(Sub(mx, mn), Rat(1, 1000))
        edge(k) == IF k = 0 /\ ~flat THEN Sub(lo, adj)
                   ELSE Add(lo, Mul(Rat(k, 3), Sub(hi, lo)))
        hit == {k \in 1..3 : Lt(edge(k - 1), x) /\ Le(x, edge(k))}
    IN IF hit = {} THEN 0 ELSE CHOOSE k \in hit : TRUE

\* the indicator columns get_dummies keeps per categorical column: the
\* second and third label (the first is dropped)
dummy_columns ==
    <<"condition_category_Average", "condition_category_Good",
      "grade_category_Medium", "grade_category_High",
      "views_category_Some", "views_category_Excellent">>

\* the six indicator values for bins (c, g, v) of condition, grade, views
dummies(c, g, v) ==
    LET ind(b) == IF b THEN Num(1) ELSE Num(0)
    IN [col \in {dummy_columns[i] : i \in 1..6} |->
          CASE col = "condition_category_Average" -> ind(c = 2)
            [] col = "condition_category_Good" -> ind(c = 3)
            [] col = "grade_category_Medium" -> ind(g = 2)
            [] col = "grade_category_High" -> ind(g = 3)
            [] col = "views_category_Some" -> ind(v = 2)
            [] col = "views_category_Excellent" -> ind(v = 3)]

\* f extended by g (g wins on common keys): later column assignments
Merge(f, g) ==
    [k \in DOMAIN f \cup DOMAIN g |-> IF k \in DOMAIN g THEN g[k] ELSE f[k]]

----------------------------------------------------------------------------
(* Serving: create_features_from_input *)

numeric_fields == required_fields

\* df_encoded: the one-row frame after the derived columns and get_dummies
engineer_input(data, current_year) ==
    LET nf == {numeric_fields[i] : i \in 1..Len(numeric_fields)}
        df == [k \in DOMAIN data |-> IF k \in nf THEN to_numeric(data[k]) ELSE data[k]]
        age == Sub(Num(current_year), df["built_year"])
        derived ==
            [age |-> age,
             years_since_renovation |->
                 IF Lt(Num(0), df["renovation_year"])
                 THEN Sub(Num(current_year), df["renovation_year"])
                 ELSE age,
             has_basement |-> IF Lt(Num(0), df["basement_area"]) THEN Num(1) ELSE Num(0),
             is_renovated |-> IF Lt(Num(0), df["renovation_year"]) THEN Num(1) ELSE Num(0),
             has_waterfront |-> AsInt(df["waterfront"]),
             living_to_lot_ratio |-> Div(df["living_area"], Add(df["lot_area"], Num(1))),
             basement_to_house_ratio |->
                 Div(df["basement_area"], Add(df["house_area"], Num(1)))]
        onehot == dummies(cut({df["condition"]}, df["condition"]),
                          cut({df["grade"]}, df["grade"]),
                          cut({df["views"]}, df["views"]))
    IN Merge(Merge(df, derived), onehot)

\* a variant that selects only the listed columns the frame already has
align_present(df_encoded, names) ==
    LET present == {i \in 1..Len(names) : names[i] \in DOMAIN df_encoded}
        nth(k) == CHOOSE i \in present : Cardinality({j \in present : j < i}) = k - 1
    IN [k \in 1..Cardinality(present) |-> df_encoded[names[nth(k)]]]

\* "for feature in feature_names: if feature not in df_encoded.columns:
\*  df_encoded[feature] = 0", then X = df_encoded[feature_names]
align(df_encoded, names) ==
    LET absent == {names[i] : i \in 1..Len(names)} \ DOMAIN df_encoded
        filled == Merge(df_encoded, [k \in absent |-> Num(0)])
    IN [i \in 1..Len(names) |-> filled[names[i]]]

create_features_from_input(data, current_year, names) ==
    align(engineer_input(data, current_year), names)

----------------------------------------------------------------------------
(* Training: create_features over the whole dataset *)

column_mapping ==
    [k \in {"number of bedrooms", "number of bathrooms", "living area", "lot area",
            "number of floors", "waterfront present", "number of views",
            "condition of the house", "grade of the house",
            "Area of the house(excluding basement)", "Area of the basement",
            "Built Year", "Renovation Year", "Postal Code", "Lattitude", "Longitude",
            "living_area_renov", "lot_area_renov", "Number of schools nearby",
            "Distance from the airport", "Price"} |->
        CASE k = "number of bedrooms" -> "bedrooms"
          [] k = "number of bathrooms" -> "bathrooms"
          [] k = "living area" -> "living_area"
          [] k = "lot area" -> "lot_area"
          [] k = "number of floors" -> "floors"
          [] k = "waterfront present" -> "waterfront"
          [] k = "number of views" -> "views"
          [] k = "condition of the house" -> "condition"
          [] k = "grade of the house" -> "grade"
          [] k = "Area of the house(excluding basement)" -> "house_area"
          [] k = "Area of the basement" -> "basement_area"
          [] k = "Built Year" -> "built_year"
          [] k = "Renovation Year" -> "renovation_year"
          [] k = "Postal Code" -> "postal_code"
          [] k = "Lattitude" -> "latitude"
          [] k = "Longitude" -> "longitude"
          [] k = "living_area_renov" -> "living_area_renovated"
          [] k = "lot_area_renov" -> "lot_area_renovated"
          [] k = "Number of schools nearby" -> "schools_nearby"
          [] k = "Distance from the airport" -> "airport_distance"
          [] k = "Price" -> "price"]

\* df.rename(columns=column_mapping) on one row: unmapped names are kept
rename(row) ==
    LET new(k) == IF k \in DOMAIN column_mapping THEN column_mapping[k] ELSE k
    IN [c \in {new(k) : k \in DOMAIN row} |->
          row[CHOOSE k \in DOMAIN row : new(k) = c]]

\* the fixed part of feature_columns
feature_columns ==
    <<"bedrooms", "bathrooms", "living_area", "lot_area", "floors",
      "waterfront", "views", "condition", "grade", "house_area",
      "basement_area", "age", "years_since_renovation", "latitude",
      "longitude", "living_area_renovated", "lot_area_renovated",
      "schools_nearby", "airport_distance", "has_basement", "is_renovated",
      "has_waterfront", "living_to_lot_ratio", "basement_to_house_ratio">>

RECURSIVE Filter(_, _)
Filter(names, cols) ==
    IF names = <<>> THEN <<>>
    ELSE IF Head(names) \in cols THEN <<Head(names)>> \o Filter(Tail(names), cols)
    ELSE Filter(Tail(names), cols)

\* create_features(df): the encoded rows and available_features.  The bins of
\* condition, grade and views span the whole column of the dataset.
create_features(df, current_year) ==
    LET rows == [i \in 1..Len(df) |-> rename(df[i])]
        col(name) == {rows[i][name] : i \in 1..Len(rows)}
        derive(r) ==
            LET age == Sub(Num(current_year), r["built_year"])
            IN [age |-> age,
                years_since_renovation |->
                    IF Lt(Num(0), r["renovation_year"])
                    THEN Sub(Num(current_year), r["renovation_year"])
                    ELSE age,
                has_basement |-> IF Lt(Num(0), r["basement_area"]) THEN Num(1) ELSE Num(0),
                is_renovated |-> IF Lt(Num(0), r["renovation_year"]) THEN Num(1) ELSE Num(0),
                has_waterfront |-> AsInt(r["waterfront"]),
                living_to_lot_ratio |-> Div(r["living_area"], Add(r["lot_area"], Num(1))),
                basement_to_house_ratio |->
                    Div(r["basement_area"], Add(r["house_area"], Num(1))),
                price_per_sqft |-> Div(r["price"], Add(r["living_area"], Num(1)))]
        onehot(r) == dummies(cut(col("condition"), r["condition"]),
                             cut(col("grade"), r["grade"]),
                             cut(col("views"), r["views"]))
        df_encoded == [i \in 1..Len(rows) |->
                          Merge(Merge(rows[i], derive(rows[i])), onehot(rows[i]))]
        columns == IF Len(rows) = 0 THEN {} ELSE DOMAIN df_encoded[1]
    IN [df_encoded |-> df_encoded,
        available_features |-> Filter(feature_columns \o dummy_columns, columns)]

----------------------------------------------------------------------------
(* Bounds and inputs *)

\* how many fields of the example request one request may change
MaxAltered == 2

\* how many times the year may turn
MaxTicks == 1

\* how many training runs may start
MaxRuns == 1

Years == 2024..(2024 + MaxTicks)

\* what model.predict may return for the one row
RawOutputs == {-500, 0, 250000}

\* a row of Housing.csv
CsvRow(condition, grade, views, built, renovated, price) ==
    ("id" :> Num(1)) @@
    ("number of bedrooms" :> Num(3)) @@ ("number of bathrooms" :> Num(2)) @@
    ("living area" :> Num(1800)) @@ ("lot area" :> Num(5000)) @@
    ("number of floors" :> Num(1)) @@ ("waterfront present" :> Num(0)) @@
    ("number of views" :> Num(views)) @@
    ("condition of the house" :> Num(condition)) @@
    ("grade of the house" :> Num(grade)) @@
    ("Area of the house(excluding basement)" :> Num(1800)) @@
    ("Area of the basement" :> Num(0)) @@
    ("Built Year" :> Num(built)) @@ ("Renovation Year" :> Num(renovated)) @@
    ("Postal Code" :> Num(98001)) @@
    ("Lattitude" :> Rat(475, 10)) @@ ("Longitude" :> Rat(-1222, 10)) @@
    ("living_area_renov" :> Num(1800)) @@ ("lot_area_renov" :> Num(5000)) @@
    ("Number of schools nearby" :> Num(2)) @@
    ("Distance from the airport" :> Num(15)) @@
    ("Price" :> Num(price))

Without(row, column) == [k \in DOMAIN row \ {column} |-> row[k]]

\* the datasets a training run may read: the second has no schools column
\* and a constant views column
Datasets ==
    <<
      <<CsvRow(1, 4, 0, 1950, 0, 200000),
        CsvRow(3, 7, 2, 1990, 2010, 400000),
        CsvRow(5, 10, 4, 2015, 0, 900000)>>,
      <<Without(CsvRow(2, 5, 0, 1960, 0, 250000), "Number of schools nearby"),
        Without(CsvRow(4, 9, 0, 2000, 2020, 650000), "Number of schools nearby")>>
    >>

\* a valid request
Example ==
    [bedrooms |-> Num(3), bathrooms |-> Num(2), living_area |-> Num(1800),
     lot_area |-> Num(5000), floors |-> Num(1), waterfront |-> Num(0),
     views |-> Num(0), condition |-> Num(3), grade |-> Num(7),
     house_area |-> Num(1800), basement_area |-> Num(0),
     built_year |-> Num(1990), renovation_year |-> Num(0),
     latitude |-> Rat(475, 10), longitude |-> Rat(-1222, 10),
     living_area_renovated |-> Num(1800), lot_area_renovated |-> Num(5000),
     schools_nearby |-> Num(2), airport_distance |-> Num(15)]


\* The ways a request may differ from the example in one key: the key is
\* left out ("absent"), holds '' ("empty"), a word ("text"), null, the
\* string "0.5" ("numstr"), or a number at or one beyond an end of its
\* range; "extra" adds a key that is not a required field.
Alterations ==
    <<
      <<"bedrooms", "absent">>, <<"bathrooms", "absent">>, <<"living_area", "absent">>,
      <<"lot_area", "absent">>, <<"floors", "absent">>, <<"waterfront", "absent">>,
      <<"views", "absent">>, <<"condition", "absent">>, <<"grade", "absent">>,
      <<"house_area", "absent">>, <<"basement_area", "absent">>,
      <<"built_year", "absent">>, <<"renovation_year", "absent">>,
      <<"latitude", "absent">>, <<"longitude", "absent">>,
      <<"living_area_renovated", "absent">>, <<"lot_area_renovated", "absent">>,
      <<"schools_nearby", "absent">>, <<"airport_distance", "absent">>,
      <<"bedrooms", "empty">>, <<"grade", "empty">>, <<"latitude", "empty">>,
      <<"airport_distance", "empty">>,
      <<"bedrooms", "text">>, <<"grade", "text">>, <<"latitude", "text">>,
      <<"lot_area_renovated", "text">>, <<"airport_distance", "text">>,
      <<"grade", "null">>, <<"longitude", "null">>,
      <<"bedrooms", "numstr">>, <<"waterfront", "numstr">>, <<"living_area", "numstr">>,
      <<"bedrooms", "below">>, <<"floors", "below">>, <<"built_year", "below">>,
      <<"bedrooms", "min">>, <<"living_area", "min">>, <<"condition", "min">>,
      <<"lot_area", "max">>, <<"condition", "max">>, <<"built_year", "max">>,
      <<"waterfront", "above">>, <<"grade", "above">>, <<"built_year", "above">>,
      <<"airport_distance", "above">>,
      <<"renovation_year", "max">>,
      <<"postal_code", "extra">>
    >>

RangeOf(key) ==
    {validations[i] : i \in {j \in 1..Len(validations) : validations[j].field = key}}

Altered(data, key, kind) ==
    LET r == CHOOSE v \in RangeOf(key) : TRUE
        put(x) == Merge(data, [k \in {key} |-> x])
    IN CASE kind = "absent" -> [k \in DOMAIN data \ {key} |-> data[k]]
         [] kind = "empty" -> put(Str(<<>>))
         [] kind = "text" -> put(Str(<<"a", "b", "c">>))
         [] kind = "null" -> put(Null)
         [] kind = "numstr" -> put(Str(<<"0", ".", "5">>))
         [] kind = "below" -> put(Num(r.min - 1))
         [] kind = "min" -> put(Num(r.min))
         [] kind = "max" -> put(Num(r.max))
         [] kind = "above" -> put(Num(r.max + 1))
         [] kind = "extra" -> put(Num(98001))

\* the sets of at most k alterations, no two of the same key
RECURSIVE AlterationSets(_)
AlterationSets(k) ==
    IF k = 0 THEN {{}}
    ELSE LET smaller == AlterationSets(k - 1)
             free(S) == {j \in 1..Len(Alterations) :
                           \A h \in S : Alterations[h][1] # Alterations[j][1]}
         IN smaller \cup UNION {{S \cup {i} : i \in free(S)} : S \in smaller}

RECURSIVE AlteredAll(_, _)
AlteredAll(data, S) ==
    IF S = {} THEN data
    ELSE LET i == CHOOSE j \in S : TRUE
         IN AlteredAll(Altered(data, Alterations[i][1], Alterations[i][2]), S \ {i})

EmptyBody == [k \in {} |-> Null]

Bodies == {AlteredAll(Example, S) : S \in AlterationSets(MaxAltered)} \cup {EmptyBody}

----------------------------------------------------------------------------
(* POST /predict *)

\* A response: the status code, the kind of body, the fields the error
\* message names (with the bounds it quotes), and predicted_price.  calls,
\* X and raw record what the handler did on the way: the steps it ran, the
\* frame it handed to the scaler and what the regressor returned.
Resp(code, kind, fields, lo, hi, calls, X, raw, prediction) ==
    [code |-> code, kind |-> kind, fields |-> fields, lo |-> lo, hi |-> hi,
     calls |-> calls, X |-> X, raw |-> raw, predicted_price |-> prediction]

NoResponse == Resp(0, "none", <<>>, 0, 0, <<>>, <<>>, 0, 0)

\* a variant without the clamp
clamp_none(prediction) == prediction

\* "if prediction < 0: prediction = 0"
clamp(prediction) == IF prediction < 0 THEN 0 ELSE prediction

HasNaN(X) == \E i \in 1..Len(X) : X[i].t # "num"

\* scaler.transform(X): ValueError unless X has the columns the scaler was
\* fitted on (NaN passes through)
transform_ok(X) == Len(X) = scaler.n

\* model.predict(X_scaled): ValueError on a wrong number of columns; on NaN
\* the outcome depends on the installed estimator (nan_ok)
predict_ok(X, nan_ok) == Len(X) = model.n /\ (HasNaN(X) => nan_ok)

\* the part of the handler after validation
run_model(data, current_year, raw, nan_ok) ==
    LET X == create_features_from_input(data, current_year, feature_names)
        c1 == <<"presence", "range", "create_features_from_input", "scaler.transform">>
        c2 == c1 \o <<"model.predict">>
    IN IF ~transform_ok(X) THEN Resp(500, "internal", <<>>, 0, 0, c1, X, 0, 0)
       ELSE IF ~predict_ok(X, nan_ok) THEN Resp(500, "internal", <<>>, 0, 0, c2, X, 0, 0)
       ELSE Resp(200, "success", <<>>, 0, 0, c2, X, raw, clamp(raw))

\* the range check of the handler, entered once every field is present
check_ranges(data, current_year, raw, nan_ok) ==
    LET i == first_failing(data)
    IN IF i = 0 THEN run_model(data, current_year, raw, nan_ok)
       ELSE IF validate_field(data, i) = "range"
            THEN Resp(400, "range", <<validations[i].field>>,
                      validations[i].min, validations[i].max,
                      <<"presence", "range">>, <<>>, 0, 0)
            ELSE Resp(400, "invalid", <<validations[i].field>>, 0, 0,
                      <<"presence", "range">>, <<>>, 0, 0)

\* a variant that checks the ranges of the fields that are present before
\* it looks for missing ones
predict_ranges_first(data, current_year, raw, nan_ok) ==
    LET bad == {i \in 1..Len(validations) :
                   /\ validations[i].field \in DOMAIN data
                   /\ validate_field(data, i) = "range"}
        i == CHOOSE j \in bad : \A h \in bad : j <= h
    IN IF DOMAIN data = {}
       THEN Resp(400, "nodata", <<>>, 0, 0, <<>>, <<>>, 0, 0)
       ELSE IF bad # {}
       THEN Resp(400, "range", <<validations[i].field>>,
                 validations[i].min, validations[i].max, <<"range">>, <<>>, 0, 0)
       ELSE IF missing_fields(data) # <<>>
       THEN Resp(400, "missing", missing_fields(data), 0, 0,
                 <<"range", "presence">>, <<>>, 0, 0)
       ELSE check_ranges(data, current_year, raw, nan_ok)

\* The handler.  raw is what the regressor returns when it is asked.
predict(data, current_year, raw, nan_ok) ==
    IF DOMAIN data = {}
    THEN Resp(400, "nodata", <<>>, 0, 0, <<>>, <<>>, 0, 0)
    ELSE LET missing == missing_fields(data)
         IN IF missing # <<>>
            THEN Resp(400, "missing", missing, 0, 0, <<"presence">>, <<>>, 0, 0)
            ELSE check_ranges(data, current_year, raw, nan_ok)

----------------------------------------------------------------------------
(* The artifact files and the training run *)

\* one file: "missing", "ok" or "corrupt" (a torn write); the run that
\* wrote it, the number of features it was fitted on or lists, and for
\* preprocessing_info.pkl the feature names
File(state, run, n, names) == [state |-> state, run |-> run, n |-> n, names |-> names]

NoFile == File("missing", 0, 0, <<>>)

files == {"model", "scaler", "info", "metrics"}

\* what save_assets writes to file f for run number id
Written(id, f, names) ==
    File("ok", id, Len(names), IF f = "info" THEN names ELSE <<>>)

\* main up to the call of save_assets: read the dataset, engineer the
\* features with the year of the clock, fit scaler and model
Train ==
    /\ trainer.pc = "idle"
    /\ trainer.started < MaxRuns
    /\ \E ds \in 1..Len(Datasets) :
         /\ runs' = Append(runs, [ds |-> ds, year |-> now_year])
         /\ trainer' = [pc |-> "model", run |-> Len(runs) + 1,
                        started |-> trainer.started + 1,
                        feature_columns |->
                            create_features(Datasets[ds], now_year).available_features]
    /\ UNCHANGED <<now_year, disk, srv, model, scaler, feature_names, metrics,
                   request, response>>

\* the order of the four writes of save_assets
next_file(f) ==
    CASE f = "model" -> "scaler"
      [] f = "scaler" -> "info"
      [] f = "info" -> "metrics"
      [] f = "metrics" -> "idle"

\* one write of save_assets: joblib.dump / json.dump of the next file
Dump ==
    /\ trainer.pc \in files
    /\ disk' = [disk EXCEPT ![trainer.pc] =
                   Written(trainer.run, trainer.pc, trainer.feature_columns)]
    /\ trainer' = [trainer EXCEPT !.pc = next_file(trainer.pc)]
    /\ UNCHANGED <<now_year, runs, srv, model, scaler, feature_names, metrics,
                   request, response>>

\* a write raises (or the process is killed): main re-raises and the run
\* ends; the file being written is left as it was or torn
Fail ==
    /\ trainer.pc \in files
    /\ \E torn \in BOOLEAN :
         disk' = IF torn
                 THEN [disk EXCEPT ![trainer.pc] = File("corrupt", trainer.run, 0, <<>>)]
                 ELSE disk
    /\ trainer' = [trainer EXCEPT !.pc = "idle"]
    /\ UNCHANGED <<now_year, runs, srv, model, scaler, feature_names, metrics,
                   request, response>>

----------------------------------------------------------------------------
(* The serving process *)

\* module level of app.py: load the four files, re-raise on any failure
Start ==
    /\ srv # "running"
    /\ IF \A f \in files : disk[f].state = "ok"
       THEN /\ srv' = "running"
            /\ model' = disk["model"]
            /\ scaler' = disk["scaler"]
            /\ feature_names' = disk["info"].names
            /\ metrics' = disk["metrics"]
       ELSE /\ srv' = "failed"
            /\ UNCHANGED <<model, scaler, feature_names, metrics>>
    /\ UNCHANGED <<now_year, disk, runs, trainer, request, response>>

\* whether the handler gets as far as model.predict on data
asks_model(data) ==
    /\ DOMAIN data # {}
    /\ missing_fields(data) = <<>>
    /\ first_failing(data) = 0
    /\ transform_ok(create_features_from_input(data, now_year, feature_names))

\* whether a field of data becomes NaN in the frame
holds_nan(data) ==
    \E i \in 1..Len(numeric_fields) :
        numeric_fields[i] \in DOMAIN data /\ to_numeric(data[numeric_fields[i]]) = NaN

\* POST /predict with a body of B.  What the regressor returns, and what it
\* does with NaN, are open where the handler asks it.
Predict(B) ==
    /\ srv = "running"
    /\ \E data \in B :
         \E raw \in IF asks_model(data) THEN RawOutputs ELSE {0} :
           \E nan_ok \in IF asks_model(data) /\ holds_nan(data) THEN BOOLEAN ELSE {TRUE} :
             /\ request' = data
             /\ response' = predict(data, now_year, raw, nan_ok)
    /\ UNCHANGED <<now_year, disk, runs, trainer, srv, model, scaler,
                   feature_names, metrics>>

\* the year turns
Tick ==
    /\ now_year + 1 \in Years
    /\ now_year' = now_year + 1
    /\ UNCHANGED <<disk, runs, trainer, srv, model, scaler, feature_names,
                   metrics, request, response>>

----------------------------------------------------------------------------
(* Specifications *)

\* the requests sent while training runs and processes start
ProbeBodies ==
    {Example,
     Altered(Example, "postal_code", "extra"),
     Altered(Example, "grade", "absent")}

PredictProbe == Predict(ProbeBodies)

\* the client sends the body of its last request again
Repeat == Predict({request})

\* A feature list that names a column no request frame has unless the
\* request sends it.
WithForeign(names) == names \o <<"postal_code">>

\* The feature list of the bundle an earlier training run left on disk,
\* trained on the first dataset: as this trainer writes it, or also naming
\* postal_code.
OldFeatures(old) ==
    IF old = "foreign"
    THEN WithForeign(create_features(Datasets[1], 2024).available_features)
    ELSE create_features(Datasets[1], 2024).available_features

\* No process runs; the disk is empty or holds an older bundle.
Init ==
    /\ now_year = 2024
    /\ \E old \in {"none", "trained", "foreign"} :
         /\ disk = [f \in files |->
                      IF old = "none" THEN NoFile ELSE Written(1, f, OldFeatures(old))]
         /\ runs = IF old = "none" THEN <<>> ELSE <<[ds |-> 1, year |-> 2024]>>
    /\ trainer = [pc |-> "idle", run |-> 0, started |-> 0, feature_columns |-> <<>>]
    /\ srv = "down"
    /\ model = NoFile
    /\ scaler = NoFile
    /\ feature_names = <<>>
    /\ metrics = NoFile
    /\ request = EmptyBody
    /\ response = NoResponse

Next == Train \/ Dump \/ Fail \/ Start \/ PredictProbe

Spec == Init /\ [][Next]_vars

\* A serving process that loaded the bundle a finished training run wrote,
\* and a client with the body it is about to post.
InitRequests ==
    /\ now_year = 2024
    /\ runs = <<[ds |-> 1, year |-> 2024]>>
    /\ disk = [f \in files |->
                 Written(1, f, create_features(Datasets[1], 2024).available_features)]
    /\ model = disk["model"]
    /\ scaler = disk["scaler"]
    /\ feature_names = disk["info"].names
    /\ metrics = disk["metrics"]
    /\ trainer = [pc |-> "idle", run |-> 1, started |-> 1, feature_columns |-> <<>>]
    /\ srv = "running"
    /\ request \in Bodies
    /\ response = NoResponse

NextRequests == Repeat \/ Tick

SpecRequests == InitRequests /\ [][NextRequests]_vars

----------------------------------------------------------------------------
(* Properties *)

Required == {required_fields[i] : i \in 1..Len(required_fields)}

Handled == response.kind # "none"

\* the required fields a body lacks or holds as ''
Missing(data) == {f \in Required : f \notin DOMAIN data \/ data[f] = Str(<<>>)}

\* the ranged fields a body holds as a number outside the closed range
OutOfRange(data) ==
    {i \in 1..Len(validations) :
        /\ validations[i].field \in DOMAIN data
        /\ float(data[validations[i].field]).ok
        /\ LET x == float(data[validations[i].field]).v
           IN \/ Lt(x, Num(validations[i].min))
              \/ Lt(Num(validations[i].max), x)}

\* every required field is present, not '' and converts to a number
AllNumeric(data) == \A f \in Required : f \in DOMAIN data /\ float(data[f]).ok

Named == {response.fields[i] : i \in 1..Len(response.fields)}

Called == {response.calls[i] : i \in 1..Len(response.calls)}

\* C1: a non-empty body that lacks required fields (absent or '') is
\* answered 400 with a message naming all of them, whatever else it holds.
C1_AllMissingNamed ==
    (Handled /\ DOMAIN request # {} /\ Missing(request) # {})
        => /\ response.code = 400
           /\ response.kind = "missing"
           /\ Named = Missing(request)
           /\ Len(response.fields) = Cardinality(Missing(request))

\* two fields are missing and both are named
C1_Witness ==
    /\ response.kind = "missing"
    /\ Cardinality(Missing(request)) >= 2
    /\ Named = Missing(request)

\* C2: with all 19 fields numeric, a ranged field outside [min, max] is
\* answered 400 naming the first such field in validation order and its
\* bounds; with every ranged field inside its range, the ends included,
\* the request passes validation.
C2_FirstOutOfRangeNamed ==
    (Handled /\ AllNumeric(request))
        => IF OutOfRange(request) # {}
           THEN LET i == CHOOSE j \in OutOfRange(request) :
                             \A h \in OutOfRange(request) : j <= h
                IN /\ response.code = 400
                   /\ response.kind = "range"
                   /\ response.fields = <<validations[i].field>>
                   /\ response.lo = validations[i].min
                   /\ response.hi = validations[i].max
           ELSE response.code # 400

\* two ranged fields are out of range and the earlier one is named
C2_Witness ==
    /\ response.kind = "range"
    /\ AllNumeric(request)
    /\ Cardinality(OutOfRange(request)) >= 2

\* C3: a body with all 19 fields present in which some field does not
\* convert to a number is answered 400 and never reaches feature
\* engineering (so never 200 or 500).
C3_NonNumericRejected ==
    (/\ Handled
     /\ \A f \in Required : f \in DOMAIN request /\ request[f] # Str(<<>>)
     /\ \E f \in Required : ~float(request[f]).ok)
        => /\ response.code = 400
           /\ "create_features_from_input" \notin Called

\* C4: a success carries predicted_price >= 0: 0 when the regressor
\* returned a negative number, the regressor's number otherwise.
C4_PriceClamped ==
    response.kind = "success"
        => /\ response.predicted_price >= 0
           /\ (response.raw < 0 => response.predicted_price = 0)
           /\ (response.raw >= 0 => response.predicted_price = response.raw)

\* the regressor returned a negative number and the response says 0
C4_Witness ==
    /\ response.kind = "success"
    /\ response.raw < 0
    /\ response.predicted_price = 0


\* C5: the frame handed to the scaler has len(feature_names) columns in the
\* order of feature_names: the engineered value where the engineered frame
\* has the column, 0 where it has not; other engineered columns are dropped.
C5_AlignedToFeatureNames ==
    "scaler.transform" \in Called
        => LET df == engineer_input(request, now_year)
           IN /\ Len(response.X) = Len(feature_names)
              /\ \A i \in 1..Len(feature_names) :
                    response.X[i] = IF feature_names[i] \in DOMAIN df
                                    THEN df[feature_names[i]]
                                    ELSE Num(0)

\* a served frame with a zero-filled column, while an engineered column
\* (schools_nearby or an extra key) is left out of it
C5_Witness ==
    /\ response.kind = "success"
    /\ \E i \in 1..Len(feature_names) :
          /\ feature_names[i] \notin DOMAIN engineer_input(request, now_year)
          /\ response.X[i] = Num(0)
    /\ Len(response.X) = Len(feature_names)

\* the column of the dataset the loaded model was trained on
TrainingColumn(name) ==
    LET df == Datasets[runs[model.run].ds]
    IN {rename(df[i])[name] : i \in 1..Len(df)}

\* the six indicator values the training run gives a row with the
\* condition, grade and views of the request
TrainingDummies ==
    dummies(cut(TrainingColumn("condition"), to_numeric(request["condition"])),
            cut(TrainingColumn("grade"), to_numeric(request["grade"])),
            cut(TrainingColumn("views"), to_numeric(request["views"])))

\* C6: the indicator columns of a served frame are the ones the training
\* run assigns to a row with the same condition, grade and views.
C6_TrainingBinsAtInference ==
    response.kind = "success"
        => \A i \in 1..Len(feature_names) :
              feature_names[i] \in DOMAIN TrainingDummies
                  => response.X[i] = TrainingDummies[feature_names[i]]

\* C7: the same body posted again gets the same frame, whatever the clock
\* says.
C7_SameFrameOnRepeat ==
    [][(/\ response.kind = "success"
        /\ response'.kind = "success"
        /\ request' = request) => response'.X = response.X]_vars

\* C8: with no training run in progress, the readable artifact files on
\* disk all come from one run and agree on the number of features.
C8_BundleFromOneRun ==
    trainer.pc = "idle"
        => \A f, g \in files :
              (disk[f].state = "ok" /\ disk[g].state = "ok")
                  => (disk[f].run = disk[g].run /\ disk[f].n = disk[g].n)

\* C9: a request is only ever handled with a model, a scaler and a feature
\* list of one arity.
C9_ServedWithMatchingArity ==
    Handled => (model.n = scaler.n /\ scaler.n = Len(feature_names))

StepOrder ==
    <<"presence", "range", "create_features_from_input", "scaler.transform",
      "model.predict">>

\* C10: the steps of a request run in the order presence check, range
\* check, feature engineering, scaling, prediction; a body with a missing
\* field and an out-of-range field gets the missing-fields message; a 400
\* has run none of the last three.
C10_ChecksBeforeModel ==
    Handled
        => /\ response.calls = SubSeq(StepOrder, 1, Len(response.calls))
           /\ (DOMAIN request # {} /\ Missing(request) # {} /\ OutOfRange(request) # {}
                  => response.kind = "missing")
           /\ (response.code = 400
                  => Called \cap {"create_features_from_input", "scaler.transform",
                                  "model.predict"} = {})
           /\ (response.kind \in {"range", "invalid"} => Missing(request) = {})

\* a body with a missing field and an out-of-range field, answered with
\* the missing-fields message
C10_Witness ==
    /\ response.kind = "missing"
    /\ OutOfRange(request) # {}
    /\ response.calls = <<"presence">>

\* the value a frame sent to the scaler holds in the column `name`
FedColumn(name) ==
    LET i == CHOOSE j \in 1..Len(feature_names) : feature_names[j] = name
    IN response.X[i]

\* C11: a request that passes validation has a waterfront of exactly 0 or
\* 1, and the has_waterfront column of the frame fed to the model equals
\* its waterfront column.
C11_WaterfrontIsIndicator ==
    "scaler.transform" \in Called
        => /\ FedColumn("waterfront") \in {Num(0), Num(1)}
           /\ FedColumn("has_waterfront") = FedColumn("waterfront")

====
